---- MODULE Spec2Model ----
(***************************************************************************)
(* Model of the translation subsystem of zhixi (src/src/translate.rs):     *)
(*   - translate_batch and lookup_cached_translations over the persistent  *)
(*     `translations` table (the cache) and the remote OpenRouter call;    *)
(*   - the pure title translator translate_title_algorithmic with its      *)
(*     helpers chinese_num_to_int and chinese_suffix_to_letter.            *)
(***************************************************************************)
EXTENDS Integers, Sequences, FiniteSets, TLC

(***************************************************************************)
(* Bounds of the model.                                                    *)
(***************************************************************************)
\* longest input slice handed to translate_batch / lookup_cached_translations
MaxLen == 3
\* longest tail appended to a title head when titles are enumerated
MaxTail == 3

(***************************************************************************)
(* Program constants.                                                      *)
(***************************************************************************)
\* `for _ in 0..3` : the number of remote attempts
MaxAttempts == 3

(***************************************************************************)
(* Option<T>: None is the empty sequence, Some(v) the one-element one.     *)
(***************************************************************************)
None == <<>>
Some(v) == <<v>>
IsSome(o) == o # None
Unwrap(o) == o[1]

Range(s) == {s[i] : i \in 1..Len(s)}

SeqsUpTo(S, n) == UNION {[1..k -> S] : k \in 0..n}

(***************************************************************************)
(* The data the translation gateway works on.                              *)
(***************************************************************************)
\* source texts: the empty string and two distinct non-empty texts
Texts == {"", "a", "b"}
\* what the remote service may put in one slot of its answer
TrVals == {"", "A", "B"}
\* the async tasks (requests) that may run the gateway
Procs == {1, 2}
\* the tasks the sequential specification runs
SeqProcs == {1}

Inputs == SeqsUpTo(Texts, MaxLen)

VARIABLES
    cache,      \* the translations table restricted to (zh, en): text -> Option
    rows,       \* the rows of that table: a bag of (source, translated)
    task,       \* per task: the locals of the running gateway function
    everSent,   \* history: the texts the remote calls made so far have carried
    kind,       \* title translator: the kind argument
    title,      \* title translator: the title argument (sequence of chars)
    out,        \* title translator: Option of the returned string
    token,      \* numeral parser: the argument s (sequence of chars)
    parsed,     \* numeral parser: Option of the returned Option<u32>
    log_items,          \* calendar builder: the LogItem list
    show_lecture_links, \* calendar builder: the flag argument
    translate_titles,   \* calendar builder: the flag argument
    calendar,   \* calendar builder: Option of the returned triple
    users,      \* the users table: the rows in rowid order
    reg,        \* per client: the locals of its running post_register
    cookies     \* per client: the private cookie user_id, an Option

gatewayVars == <<cache, rows, task, everSent>>
titleVars == <<kind, title, out>>
numeralVars == <<token, parsed>>
calendarVars == <<log_items, show_lecture_links, translate_titles, calendar>>
registerVars == <<users, reg, cookies>>
vars == <<cache, rows, task, everSent, kind, title, out, token, parsed,
          log_items, show_lecture_links, translate_titles, calendar,
          users, reg, cookies>>

\* the browsers that send requests, and what their forms carry
Clients == {"c1", "c2"}
Usernames == {"u", "v"}
Passwords == {"p", "q"}

\* a client with no post_register in flight; response keeps the last answer
IdleReg == [pc |-> "idle", username |-> "", password |-> "", response |-> ""]

\* an empty users table, no request in flight, no cookie set
NoRegistration ==
    /\ users = <<>>
    /\ reg = [c \in Clients |-> IdleReg]
    /\ cookies = [c \in Clients |-> None]

EmptyMap == [t \in Texts |-> None]

IdleTask ==
    [ pc           |-> "idle",
      op           |-> "none",
      texts        |-> <<>>,
      unique_texts |-> <<>>,
      idx          |-> 0,
      cache_map    |-> EmptyMap,
      misses       |-> <<>>,
      attempt      |-> 0,
      api_result   |-> None,
      result       |-> <<>>,
      cache0       |-> EmptyMap,
      readRes      |-> <<>>,
      calls        |-> <<>>,
      writeRes     |-> <<>> ]

(***************************************************************************)
(* translate_batch, lines 212-219: deduplicate while preserving order.     *)
(***************************************************************************)
\* a deduplication that forgets the `seen` set
DedupKeepsRepeats(ts) ==
    LET F[i \in 0..Len(ts)] ==
            IF i = 0 THEN <<>>
            ELSE IF ts[i] # "" THEN Append(F[i-1], ts[i]) ELSE F[i-1]
    IN  F[Len(ts)]

Dedup(ts) ==
    LET F[i \in 0..Len(ts)] ==
            IF i = 0 THEN <<>>
            ELSE IF ts[i] # "" /\ ts[i] \notin Range(F[i-1])
                 THEN Append(F[i-1], ts[i])
                 ELSE F[i-1]
    IN  F[Len(ts)]

\* a map-back that walks the deduplicated texts instead of the input
MapBackOverUnique(ts, cm) ==
    LET F[i \in 0..Len(ts)] ==
            IF i = 0 THEN <<>>
            ELSE IF ts[i] # "" /\ ts[i] \notin Range(F[i-1])
                 THEN Append(F[i-1], ts[i])
                 ELSE F[i-1]
        u == F[Len(ts)]
    IN  [i \in 1..Len(u) |-> IF IsSome(cm[u[i]]) THEN Unwrap(cm[u[i]]) ELSE u[i]]

(***************************************************************************)
(* translate_batch, lines 283-293: map back to the original order.         *)
(***************************************************************************)
MapBack(ts, cm) ==
    [i \in 1..Len(ts) |->
        IF ts[i] = "" THEN ""
        ELSE IF IsSome(cm[ts[i]]) THEN Unwrap(cm[ts[i]]) ELSE ts[i]]

\* a failed read answered with the source text itself: unwrap_or(Some(text))
CacheReadErrorIsIdentity(c, text, io) == IF io = "ok" THEN c[text] ELSE Some(text)

\* a SELECT whose WHERE clause never matches (e.g. a wrong language pair)
CacheReadNeverHits(c, text, io) == None

\* a SELECT without the source_text condition: some row of the table
CacheReadAnyRow(c, text, io) ==
    IF io = "ok" /\ \E x \in DOMAIN c : c[x] # None
    THEN c[CHOOSE x \in DOMAIN c : c[x] # None]
    ELSE None

(***************************************************************************)
(* The SELECT of lines 188-194 / 226-232: fetch_optional(..).unwrap_or(None)*)
(* io = "ok" is a read that ran, io = "err" one that failed.               *)
(***************************************************************************)
CacheRead(c, text, io) == IF io = "ok" THEN c[text] ELSE None

(***************************************************************************)
(* The table behind the cache.  Its schema is not part of the source       *)
(* files; the specification (section 3) says an entry is unique per        *)
(* (source_text, source_lang, target_lang), which is what makes INSERT OR  *)
(* REPLACE replace.  The language pair is always (zh, en).                 *)
(***************************************************************************)
EmptyRows == [r \in {} |-> 0]

\* a table without a uniqueness constraint
NoConflict(r, source) == FALSE

\* the uniqueness constraint: a row conflicts with a new row of its source
Conflicts(r, source) == r.source = source

\* lines 259-265 on the rows: conflicting rows are deleted, the row inserted
TableUpsert(rws, source, translated, io) ==
    IF io = "ok"
    THEN LET new  == [source |-> source, translated |-> translated]
             keep == {r \in DOMAIN rws : ~Conflicts(r, source)}
         IN  [r \in keep \cup {new} |->
                IF r = new
                THEN (IF new \in keep THEN rws[new] ELSE 0) + 1
                ELSE rws[r]]
    ELSE rws

\* a REPLACE done as delete-then-insert whose failure leaves the row deleted
CacheDeleteOnFailedWrite(c, source, translated, io) ==
    IF io = "ok"
    THEN [c EXCEPT ![source] = Some(translated)]
    ELSE [c EXCEPT ![source] = None]

\* INSERT OR IGNORE instead of INSERT OR REPLACE
CacheInsertOrIgnore(c, source, translated, io) ==
    IF io = "ok" /\ c[source] = None
    THEN [c EXCEPT ![source] = Some(translated)]
    ELSE c

(***************************************************************************)
(* The INSERT OR REPLACE of lines 259-265; its Result is discarded.        *)
(***************************************************************************)
CacheUpsert(c, source, translated, io) ==
    IF io = "ok" THEN [c EXCEPT ![source] = Some(translated)] ELSE c

\* lines 271-273 / 277-279: every miss is bound to itself
FallbackMap(cm, ms) ==
    [t \in Texts |-> IF t \in Range(ms) THEN Some(t) ELSE cm[t]]

\* what the remote service may answer to n texts: any n translations, or a
\* list one shorter or one longer (its content is never read by the caller)
Responses(n) ==
    [1..n -> TrVals]
      \cup {[i \in 1..(n+1) |-> "A"]}
      \cup (IF n > 0 THEN {[i \in 1..(n-1) |-> "A"]} ELSE {})

Finish(t, cm) ==
    [t EXCEPT !.pc = "done", !.cache_map = cm, !.result = MapBack(t.texts, cm)]

(***************************************************************************)
(* translate_batch is entered (lines 203-223).                             *)
(***************************************************************************)
InvokeWith(p, ts) ==
    /\ task[p].pc = "idle"
    /\ LET u  == Dedup(ts)
           t0 == [IdleTask EXCEPT !.op = "translate_batch", !.texts = ts,
                                  !.unique_texts = u, !.idx = 1,
                                  !.cache0 = cache]
       IN  task' = [task EXCEPT ![p] =
                      IF ts = <<>> THEN [t0 EXCEPT !.pc = "done"]
                      ELSE IF u = <<>> THEN Finish(t0, EmptyMap)
                      ELSE [t0 EXCEPT !.pc = "check"]]
    /\ UNCHANGED <<cache, rows, everSent>>
    /\ UNCHANGED <<titleVars, numeralVars, calendarVars, registerVars>>

Invoke(p) == \E ts \in Inputs : InvokeWith(p, ts)

(***************************************************************************)
(* One iteration of the cache check loop (lines 225-239); after the last   *)
(* one the function returns (no miss) or goes on to the remote call.       *)
(***************************************************************************)
CheckCache(p) ==
    /\ task[p].pc = "check"
    /\ \E io \in {"ok", "err"} :
         LET t      == task[p]
             text   == t.unique_texts[t.idx]
             cached == CacheRead(cache, text, io)
             cm     == IF IsSome(cached)
                       THEN [t.cache_map EXCEPT ![text] = cached]
                       ELSE t.cache_map
             ms     == IF IsSome(cached) THEN t.misses
                       ELSE Append(t.misses, text)
             t1     == [t EXCEPT !.cache_map = cm, !.misses = ms,
                                 !.idx = @ + 1,
                                 !.readRes = Append(@, [io |-> io, entry |-> cache[text]])]
         IN  task' = [task EXCEPT ![p] =
                        IF t.idx < Len(t.unique_texts) THEN t1
                        ELSE IF ms = <<>> THEN Finish(t1, cm)
                        ELSE [t1 EXCEPT !.pc = "call", !.attempt = 0]]
    /\ UNCHANGED <<cache, rows, everSent>>
    /\ UNCHANGED <<titleVars, numeralVars, calendarVars, registerVars>>

\* a retry loop that never counts its attempts
NextAttemptStuck(a) == a

\* the attempt counter after a failed attempt (the `for _ in 0..3` step)
NextAttempt(a) == a + 1

\* a count check that lets a longer answer through (zip would truncate it)
CountAtLeast(translations, ms) == Len(translations) >= Len(ms)

\* line 256: translations.len() == misses.len()
CountMatches(translations, ms) == Len(translations) = Len(ms)

\* the last error is propagated to the caller instead of being swallowed
OnExhaustedPropagates(t) == [t EXCEPT !.pc = "failed"]

\* lines 275-280: no attempt succeeded; the misses fall back to themselves
OnExhausted(t) == Finish(t, FallbackMap(t.cache_map, t.misses))

\* history only: a remote call has carried the texts of ms
CountSent(sent, ms) == sent \cup Range(ms)

(***************************************************************************)
(* One remote attempt (lines 244-254) and, when the loop ends, the choice  *)
(* of lines 255-280 between storing and the identity fallback.             *)
(***************************************************************************)
CallRemoteErr(p) ==
    /\ task[p].pc = "call"
    /\ task[p].attempt < MaxAttempts
    /\ LET t  == task[p]
           t1 == [t EXCEPT !.attempt = NextAttempt(@),
                           !.calls = Append(@, [sent |-> t.misses, ok |-> FALSE])]
       IN  task' = [task EXCEPT ![p] =
                      IF t1.attempt = MaxAttempts
                      THEN OnExhausted(t1)
                      ELSE t1]
    /\ everSent' = CountSent(everSent, task[p].misses)
    /\ UNCHANGED <<cache, rows>>
    /\ UNCHANGED <<titleVars, numeralVars, calendarVars, registerVars>>

CallRemoteOk(p) ==
    /\ task[p].pc = "call"
    /\ task[p].attempt < MaxAttempts
    /\ \E translations \in Responses(Len(task[p].misses)) :
         LET t  == task[p]
             t1 == [t EXCEPT !.api_result = Some(translations),
                             !.calls = Append(@, [sent |-> t.misses, ok |-> TRUE])]
         IN  task' = [task EXCEPT ![p] =
                        IF CountMatches(translations, t.misses)
                        THEN [t1 EXCEPT !.pc = "store", !.idx = 1]
                        ELSE Finish(t1, FallbackMap(t.cache_map, t.misses))]
    /\ everSent' = CountSent(everSent, task[p].misses)
    /\ UNCHANGED <<cache, rows>>
    /\ UNCHANGED <<titleVars, numeralVars, calendarVars, registerVars>>

(***************************************************************************)
(* One iteration of the store loop (lines 257-268).                        *)
(***************************************************************************)
StoreTranslation(p) ==
    /\ task[p].pc = "store"
    /\ \E io \in {"ok", "err"} :
         LET t          == task[p]
             source     == t.misses[t.idx]
             translated == Unwrap(t.api_result)[t.idx]
             cm         == [t.cache_map EXCEPT ![source] = Some(translated)]
             t1         == [t EXCEPT !.cache_map = cm, !.idx = @ + 1,
                                     !.writeRes = Append(@, io)]
         IN  /\ cache' = CacheUpsert(cache, source, translated, io)
             /\ rows' = TableUpsert(rows, source, translated, io)
             /\ task' = [task EXCEPT ![p] =
                           IF t.idx < Len(t.misses) THEN t1 ELSE Finish(t1, cm)]
    /\ UNCHANGED everSent
    /\ UNCHANGED <<titleVars, numeralVars, calendarVars, registerVars>>

(***************************************************************************)
(* lookup_cached_translations (lines 182-198).                             *)
(***************************************************************************)
LookupStart(p) ==
    /\ task[p].pc = "idle"
    /\ \E ts \in Inputs :
         LET t0 == [IdleTask EXCEPT !.op = "lookup_cached_translations",
                                    !.texts = ts, !.idx = 1, !.cache0 = cache]
         IN  task' = [task EXCEPT ![p] =
                        IF ts = <<>> THEN [t0 EXCEPT !.pc = "done"]
                        ELSE [t0 EXCEPT !.pc = "lookup"]]
    /\ UNCHANGED <<cache, rows, everSent>>
    /\ UNCHANGED <<titleVars, numeralVars, calendarVars, registerVars>>

LookupRead(p) ==
    /\ task[p].pc = "lookup"
    /\ \E io \in {"ok", "err"} :
         LET t  == task[p]
             t1 == [t EXCEPT !.result = Append(@, CacheRead(cache, t.texts[t.idx], io)),
                             !.idx = @ + 1,
                             !.readRes = Append(@, [io |-> io, entry |-> cache[t.texts[t.idx]]])]
         IN  task' = [task EXCEPT ![p] =
                        IF t.idx < Len(t.texts) THEN t1
                        ELSE [t1 EXCEPT !.pc = "done"]]
    /\ UNCHANGED <<cache, rows, everSent>>
    /\ UNCHANGED <<titleVars, numeralVars, calendarVars, registerVars>>

(***************************************************************************)
(* The caller has taken the returned vector; the task's locals are dropped.*)
(***************************************************************************)
Return(p) ==
    /\ task[p].pc = "done"
    /\ task' = [task EXCEPT ![p] = IdleTask]
    /\ UNCHANGED <<cache, rows, everSent>>
    /\ UNCHANGED <<titleVars, numeralVars, calendarVars, registerVars>>

Init ==
    /\ cache = EmptyMap
    /\ rows = EmptyRows
    /\ task = [p \in Procs |-> IdleTask]
    /\ everSent = {}
    /\ kind = ""
    /\ title = <<>>
    /\ out = None
    /\ token = <<>>
    /\ parsed = None
    /\ log_items = <<>>
    /\ show_lecture_links = FALSE
    /\ translate_titles = FALSE
    /\ calendar = None
    /\ NoRegistration

Next ==
    \E p \in SeqProcs :
        \/ Invoke(p)
        \/ CheckCache(p)
        \/ CallRemoteErr(p)
        \/ CallRemoteOk(p)
        \/ StoreTranslation(p)
        \/ LookupStart(p)
        \/ LookupRead(p)
        \/ Return(p)

Spec == Init /\ [][Next]_vars

(***************************************************************************)
(* Fairness: a task that is inside a gateway function keeps being polled,  *)
(* and every awaited read, write and remote attempt completes with one of  *)
(* its outcomes.  Entering a function is left to the callers.              *)
(***************************************************************************)
Step(p) ==
    \/ CheckCache(p)
    \/ CallRemoteErr(p)
    \/ CallRemoteOk(p)
    \/ StoreTranslation(p)
    \/ LookupRead(p)

FairSpec == Init /\ [][Next]_vars /\ \A p \in SeqProcs : WF_vars(Step(p))

(***************************************************************************)
(* Vocabulary of the claims about the gateway.                             *)
(***************************************************************************)
Last(s) == s[Len(s)]

InBatch(t) == t.op = "translate_batch"
InLookup(t) == t.op = "lookup_cached_translations"

\* the cache check loop has read text x, and the table held an entry for it
HadEntry(t, x) ==
    \E i \in 1..Len(t.readRes) :
        i <= Len(t.unique_texts) /\ t.unique_texts[i] = x /\ IsSome(t.readRes[i].entry)

\* ... and the read delivered that entry
GotEntry(t, x) ==
    \E i \in 1..Len(t.readRes) :
        /\ i <= Len(t.unique_texts) /\ t.unique_texts[i] = x
        /\ t.readRes[i].io = "ok" /\ IsSome(t.readRes[i].entry)

ChecksDone(t) == t.pc \in {"call", "store", "done"} /\ t.texts # <<>>

FirstPos(s, x) == CHOOSE i \in 1..Len(s) : s[i] = x /\ \A j \in 1..(i-1) : s[j] # x

\* s lists exactly the members of S, each once, in the order of their first
\* occurrence in ts
ListsInOrder(s, S, ts) ==
    /\ Range(s) = S
    /\ Len(s) = Cardinality(S)
    /\ S \subseteq Range(ts)
    /\ \A i, j \in 1..Len(s) : i < j => FirstPos(ts, s[i]) < FirstPos(ts, s[j])

\* the last remote call returned a list of the sent length
Stored(t) ==
    /\ t.calls # <<>>
    /\ Last(t.calls).ok
    /\ Len(Unwrap(t.api_result)) = Len(Last(t.calls).sent)

AllFailed(t) ==
    /\ Len(t.calls) = MaxAttempts
    /\ \A i \in 1..Len(t.calls) : ~t.calls[i].ok

Mismatch(t) ==
    /\ t.calls # <<>>
    /\ Last(t.calls).ok
    /\ Len(Unwrap(t.api_result)) # Len(Last(t.calls).sent)

\* the values the invocation may bind to the non-empty text x
BoundVals(t, x) ==
    IF GotEntry(t, x)
    THEN {Unwrap(t.readRes[i].entry) :
            i \in {k \in 1..Len(t.readRes) :
                     /\ k <= Len(t.unique_texts) /\ t.unique_texts[k] = x
                     /\ t.readRes[k].io = "ok" /\ IsSome(t.readRes[k].entry)}}
    ELSE IF Stored(t)
    THEN {Unwrap(t.api_result)[j] :
            j \in {k \in 1..Len(Last(t.calls).sent) : Last(t.calls).sent[k] = x}}
    ELSE {x}

(***************************************************************************)
(* C1 (as stated): when the first remote attempt succeeds, exactly one     *)
(* remote call is made and it carries exactly the distinct non-empty input *)
(* texts that had no cache entry, in first-occurrence order; when every    *)
(* non-empty input text has a cache entry no remote call is made.          *)
(***************************************************************************)
C1_SentAreTheUncached ==
    \A p \in Procs :
        LET t == task[p] IN
        (InBatch(t) /\ ChecksDone(t)) =>
            /\ (t.calls # <<>> /\ t.calls[1].ok) =>
                  /\ Len(t.calls) = 1
                  /\ ListsInOrder(t.calls[1].sent,
                                  {x \in Range(t.texts) : x # "" /\ ~HadEntry(t, x)},
                                  t.texts)
            /\ (t.pc = "done" /\ \A x \in Range(t.texts) \ {""} : HadEntry(t, x)) =>
                  t.calls = <<>>

(***************************************************************************)
(* C1 (amended): when the first remote attempt succeeds, exactly one       *)
(* remote call is made and it carries exactly the distinct non-empty input *)
(* texts whose cache read delivered no entry (none stored, or the read     *)
(* failed), in first-occurrence order, without the empty text and without  *)
(* duplicates; when every non-empty input text's read delivers an entry    *)
(* (or the input is empty) no remote call is made.                         *)
(***************************************************************************)
C1_SentAreTheUnread ==
    \A p \in Procs :
        LET t == task[p] IN
        InBatch(t) =>
            /\ (t.calls # <<>> /\ t.calls[1].ok) =>
                  /\ Len(t.calls) = 1
                  /\ "" \notin Range(t.calls[1].sent)
                  /\ ListsInOrder(t.calls[1].sent,
                                  {x \in Range(t.texts) : x # "" /\ ~GotEntry(t, x)},
                                  t.texts)
            /\ (t.pc = "done" /\ \A x \in Range(t.texts) \ {""} : GotEntry(t, x)) =>
                  t.calls = <<>>

\* the spec's example: ["a","a","b"], "a" cached as "A", the remote answers ["B"]
C1_Witness ==
    LET t == task[1] IN
    /\ InBatch(t) /\ t.pc = "done"
    /\ t.texts = <<"a", "a", "b">>
    /\ t.readRes = <<[io |-> "ok", entry |-> Some("A")], [io |-> "ok", entry |-> None]>>
    /\ t.calls = <<[sent |-> <<"b">>, ok |-> TRUE]>>
    /\ t.result = <<"A", "A", "B">>
    /\ cache["b"] = Some("B")

(***************************************************************************)
(* C2: translate_batch returns a sequence of the input's length; position  *)
(* i is "" when input i is empty and otherwise the value bound to input    *)
(* i's text (the entry read from the cache, else the remote translation at *)
(* the text's position, else the text itself); equal inputs get equal      *)
(* outputs.                                                                *)
(***************************************************************************)
C2_ResultShape ==
    \A p \in Procs :
        LET t == task[p] IN
        (InBatch(t) /\ t.pc = "done") =>
            /\ Len(t.result) = Len(t.texts)
            /\ \A i \in 1..Len(t.texts) :
                  /\ i <= Len(t.result)
                  /\ (t.texts[i] = "" => t.result[i] = "")
                  /\ (t.texts[i] # "" => t.result[i] \in BoundVals(t, t.texts[i]))
            /\ \A i, j \in 1..Len(t.texts) :
                  t.texts[i] = t.texts[j] => t.result[i] = t.result[j]

\* a hit, an empty text and a remotely translated text in one batch
C2_Witness ==
    LET t == task[1] IN
    /\ InBatch(t) /\ t.pc = "done"
    /\ t.texts = <<"b", "", "a">>
    /\ GotEntry(t, "b") /\ Stored(t)
    /\ t.result = <<"B", "", "A">>

(***************************************************************************)
(* C3 (as stated): when the remote call returns as many translations as    *)
(* there were misses, then on return the cache maps every miss to the      *)
(* translation at its position and the result uses those translations.     *)
(***************************************************************************)
C3_AllMissesCached ==
    \A p \in Procs :
        LET t == task[p] IN
        (InBatch(t) /\ t.pc = "done" /\ Stored(t)) =>
            \A j \in 1..Len(t.misses) :
                /\ cache[t.misses[j]] = Some(Unwrap(t.api_result)[j])
                /\ \A i \in 1..Len(t.texts) :
                      t.texts[i] = t.misses[j] => t.result[i] = Unwrap(t.api_result)[j]

(***************************************************************************)
(* C3 (amended): when the remote call returns as many translations as      *)
(* there were misses, then on return the cache maps every miss whose cache *)
(* write succeeded to the translation at its position, a miss whose write  *)
(* failed keeps the cache entry it had, and the result uses the positional *)
(* translation for every miss.                                             *)
(***************************************************************************)
C3_WrittenMissesCached ==
    \A p \in Procs :
        LET t == task[p] IN
        (InBatch(t) /\ t.pc = "done" /\ Stored(t)) =>
            /\ Len(t.writeRes) = Len(t.misses)
            /\ \A j \in 1..Len(t.misses) :
                /\ j <= Len(t.writeRes)
                /\ t.writeRes[j] = "ok" =>
                      cache[t.misses[j]] = Some(Unwrap(t.api_result)[j])
                /\ t.writeRes[j] = "err" =>
                      cache[t.misses[j]] = t.cache0[t.misses[j]]
                /\ \A i \in 1..Len(t.texts) :
                      t.texts[i] = t.misses[j] => t.result[i] = Unwrap(t.api_result)[j]

\* two misses stored, one write failing, the other replacing an entry whose
\* read had failed
C3_Witness ==
    LET t == task[1] IN
    /\ InBatch(t) /\ t.pc = "done" /\ Stored(t)
    /\ t.misses = <<"a", "b">>
    /\ t.cache0["b"] = Some("A")
    /\ t.api_result = Some(<<"A", "B">>)
    /\ t.writeRes = <<"err", "ok">>
    /\ cache["b"] = Some("B")
    /\ cache["a"] = None

(***************************************************************************)
(* C4: when all three remote attempts fail, or the remote call succeeds    *)
(* with a translation count different from the miss count, the result maps *)
(* every miss to its own source text and the cache is exactly what it was  *)
(* when the invocation started.                                            *)
(***************************************************************************)
C4_FallbackIsIdentity ==
    \A p \in Procs :
        LET t == task[p] IN
        (InBatch(t) /\ t.pc = "done" /\ (AllFailed(t) \/ Mismatch(t))) =>
            /\ t.misses # <<>>
            /\ \A i \in 1..Len(t.texts) :
                  t.texts[i] \in Range(t.misses) => t.result[i] = t.texts[i]
            /\ t.writeRes = <<>>
            /\ cache = t.cache0

\* the spec's example (three failures) with a cached neighbour
C4_Witness ==
    LET t == task[1] IN
    /\ InBatch(t) /\ t.pc = "done" /\ AllFailed(t)
    /\ t.texts = <<"a", "b">>
    /\ t.misses = <<"a">>
    /\ t.result = <<"a", "B">>
    /\ cache["a"] = None

(***************************************************************************)
(* C5: every translate_batch invocation eventually returns a result        *)
(* sequence, whatever each remote attempt, cache read and cache write      *)
(* does.                                                                   *)
(***************************************************************************)
C5_EventuallyReturns ==
    \A p \in SeqProcs :
        (InBatch(task[p]) /\ task[p].pc # "done")
            ~> (InBatch(task[p]) /\ task[p].pc = "done"
                  /\ Len(task[p].result) = Len(task[p].texts))

\* an invocation that returned after a failed read, three failed attempts
C5_Witness ==
    LET t == task[1] IN
    /\ InBatch(t) /\ t.pc = "done" /\ AllFailed(t)
    /\ \E i \in 1..Len(t.readRes) : t.readRes[i].io = "err"
    /\ Len(t.result) = Len(t.texts)

(***************************************************************************)
(* C6 (as stated): an element of translate_batch's result is the empty     *)
(* string only if the input element at the same position is the empty      *)
(* string.                                                                 *)
(***************************************************************************)
C6_EmptyOnlyForEmpty ==
    \A p \in Procs :
        LET t == task[p] IN
        (InBatch(t) /\ t.pc = "done") =>
            \A i \in 1..Len(t.result) : t.result[i] = "" => t.texts[i] = ""

(***************************************************************************)
(* C7 (as stated): over any sequence of invocations sharing the cache,     *)
(* each distinct source text is sent to the remote service in at most one  *)
(* remote call.                                                            *)
(***************************************************************************)
C7_SentAtMostOnce ==
    [][\A p \in Procs :
          Len(task'[p].calls) > Len(task[p].calls)
              => Range(Last(task'[p].calls).sent) \cap everSent = {}]_vars

(***************************************************************************)
(* C7 (amended): over any sequence of invocations sharing the cache, an    *)
(* invocation sends a text to the remote service only if the cache held no *)
(* entry for it when the invocation read it, or that read failed; so once  *)
(* a translation is stored and read back, the text is not sent again.      *)
(***************************************************************************)
C7_SentOnlyWhenUnread ==
    \A p \in Procs :
        LET t == task[p] IN
        InBatch(t) =>
            \A k \in 1..Len(t.calls) :
                \A x \in Range(t.calls[k].sent) :
                    HadEntry(t, x) => ~GotEntry(t, x)

\* "a" was sent once, stored, and a later invocation on "a" and "b" read it
\* back and sent only "b"
C7_Witness ==
    LET t == task[1] IN
    /\ InBatch(t) /\ t.pc = "done"
    /\ t.texts = <<"a", "b">>
    /\ t.cache0["a"] = Some("A")
    /\ "a" \in everSent
    /\ GotEntry(t, "a")
    /\ t.calls = <<[sent |-> <<"b">>, ok |-> TRUE]>>

(***************************************************************************)
(* C8 (as stated): lookup_cached_translations returns, in input order and  *)
(* length, the cached translation of input i when the cache has an entry   *)
(* for that text and absent otherwise; the cache is unchanged and no       *)
(* remote call is made.                                                    *)
(***************************************************************************)
C8_LookupMirrorsCache ==
    \A p \in Procs :
        LET t == task[p] IN
        (InLookup(t) /\ t.pc = "done") =>
            /\ Len(t.result) = Len(t.texts)
            /\ \A i \in 1..Len(t.texts) : t.result[i] = cache[t.texts[i]]
            /\ cache = t.cache0
            /\ t.calls = <<>>

(***************************************************************************)
(* C8 (amended): lookup_cached_translations returns, in input order and    *)
(* length, the cached translation of input i when the cache has an entry   *)
(* for that text and the read of it succeeds, and absent otherwise; the    *)
(* cache is unchanged and no remote call is made.                          *)
(***************************************************************************)
C8_LookupMirrorsReads ==
    \A p \in Procs :
        LET t == task[p] IN
        (InLookup(t) /\ t.pc = "done") =>
            /\ Len(t.result) = Len(t.texts)
            /\ Len(t.readRes) = Len(t.texts)
            /\ \A i \in 1..Len(t.texts) :
                  /\ i <= Len(t.result) /\ i <= Len(t.readRes)
                  /\ t.readRes[i].io = "ok" => t.result[i] = cache[t.texts[i]]
                  /\ t.readRes[i].io = "err" => t.result[i] = None
            /\ cache = t.cache0
            /\ t.calls = <<>>
            /\ t.writeRes = <<>>

\* a hit, a text without entry, and a hit whose read failed
C8_Witness ==
    LET t == task[1] IN
    /\ InLookup(t) /\ t.pc = "done"
    /\ t.texts = <<"a", "b", "a">>
    /\ cache["a"] = Some("A") /\ cache["b"] = None
    /\ t.readRes[1].io = "ok" /\ t.readRes[3].io = "err"
    /\ t.result = <<Some("A"), None, None>>

(***************************************************************************)
(* Algorithmic title translation.  A Rust string is the sequence of its    *)
(* chars; a Chinese char is written by its pinyin:                         *)
(*   di U+7B2C  jiang U+8BB2  ci U+6B21                                    *)
(*   qi U+671F  zhong U+4E2D  mo U+672B  kao U+8003  shi4 U+8BD5           *)
(*   zuo U+4F5C  ye U+4E1A  ce U+6D4B  yan U+9A8C  shi2 U+5B9E             *)
(*   tao U+8BA8  lun U+8BBA  zuo4 U+5EA7  xiang U+9879  mu U+76EE          *)
(*   ling yi er san si wu liu qi7 ba jiu : the digits U+96F6, U+4E00 ...   *)
(*   shi U+5341 (ten)  bai U+767E (hundred)                                *)
(*   jia U+7532  yi3 U+4E59  bing U+4E19 : the section markers             *)
(*   x : a char that occurs in no pattern                                  *)
(***************************************************************************)

\* lines 15-29: the closure `digit`
Digit(c) ==
    CASE c = "ling" -> Some(0)
      [] c = "yi"   -> Some(1)
      [] c = "er"   -> Some(2)
      [] c = "san"  -> Some(3)
      [] c = "si"   -> Some(4)
      [] c = "wu"   -> Some(5)
      [] c = "liu"  -> Some(6)
      [] c = "qi7"  -> Some(7)
      [] c = "ba"   -> Some(8)
      [] c = "jiu"  -> Some(9)
      [] OTHER      -> None

(***************************************************************************)
(* chinese_num_to_int (lines 9-81).  Indices are 1-based here: the code's  *)
(* i is i - 1.  A step of the parse carries result, i and, once the code   *)
(* has returned early (line 65), the returned value.                       *)
(***************************************************************************)
\* lines 43-49
ParseHundreds(chars) ==
    IF Len(chars) >= 2 /\ chars[2] = "bai" /\ IsSome(Digit(chars[1]))
    THEN [result |-> Unwrap(Digit(chars[1])) * 100, i |-> 3]
    ELSE [result |-> 0, i |-> 1]

\* lines 51-67
ParseTens(chars, st) ==
    IF st.i <= Len(chars)
    THEN IF chars[st.i] = "shi"
         THEN [result |-> st.result + 10, i |-> st.i + 1, ret |-> None]
         ELSE IF st.i + 1 <= Len(chars) /\ chars[st.i + 1] = "shi"
         THEN IF IsSome(Digit(chars[st.i]))
              THEN [result |-> st.result + Unwrap(Digit(chars[st.i])) * 10,
                    i |-> st.i + 2, ret |-> None]
              ELSE [result |-> st.result, i |-> st.i, ret |-> None]
         ELSE IF st.result = 0
         THEN [result |-> st.result, i |-> st.i, ret |-> Some(Digit(chars[st.i]))]
         ELSE [result |-> st.result, i |-> st.i, ret |-> None]
    ELSE [result |-> st.result, i |-> st.i, ret |-> None]

\* a parser that drops the units digit after the tens
ParseUnitsSkipped(chars, st) == st.result

\* lines 69-74
ParseUnits(chars, st) ==
    IF st.i <= Len(chars) /\ IsSome(Digit(chars[st.i]))
    THEN st.result + Unwrap(Digit(chars[st.i]))
    ELSE st.result

chinese_num_to_int(chars) ==
    IF chars = <<>> THEN None
    ELSE IF Len(chars) = 1
    THEN IF chars[1] = "shi" THEN Some(10) ELSE Digit(chars[1])
    ELSE LET tens == ParseTens(chars, ParseHundreds(chars))
             result == ParseUnits(chars, tens)
         IN  IF IsSome(tens.ret) THEN Unwrap(tens.ret)
             ELSE IF result > 0 \/ chars = <<"ling">> THEN Some(result)
             ELSE None

\* a translator that knows no section marker
SuffixToLetterNone(c) == None

\* lines 84-91
chinese_suffix_to_letter(c) ==
    CASE c = "jia"  -> Some("A")
      [] c = "yi3"  -> Some("B")
      [] c = "bing" -> Some("C")
      [] OTHER      -> None

\* the chars of the English names the function can emit
Spell(name) ==
    CASE name = "Lecture"    -> <<"L", "e", "c", "t", "u", "r", "e">>
      [] name = "Discussion" -> <<"D", "i", "s", "c", "u", "s", "s", "i", "o", "n">>
      [] name = "Lab"        -> <<"L", "a", "b">>
      [] name = "Homework"   -> <<"H", "o", "m", "e", "w", "o", "r", "k">>
      [] name = "Quiz"       -> <<"Q", "u", "i", "z">>
      [] name = "Midterm"    -> <<"M", "i", "d", "t", "e", "r", "m">>
      [] name = "Final"      -> <<"F", "i", "n", "a", "l">>
      [] name = "Project"    -> <<"P", "r", "o", "j", "e", "c", "t">>
      [] name = "Other"      -> <<"O", "t", "h", "e", "r">>

\* lines 96-106
EnKind(k) ==
    IF k \in {"Lecture", "Discussion", "Lab", "Homework", "Quiz", "Midterm",
              "Final", "Project"}
    THEN Spell(k)
    ELSE Spell("Other")

\* `{}` applied to a u32: its decimal digits
DecimalDigit(d) ==
    CASE d = 0 -> "0" [] d = 1 -> "1" [] d = 2 -> "2" [] d = 3 -> "3"
      [] d = 4 -> "4" [] d = 5 -> "5" [] d = 6 -> "6" [] d = 7 -> "7"
      [] d = 8 -> "8" [] d = 9 -> "9"

RECURSIVE FormatU32(_)
FormatU32(n) ==
    IF n < 10 THEN <<DecimalDigit(n)>>
    ELSE Append(FormatU32(n \div 10), DecimalDigit(n % 10))

\* str::strip_prefix / str::strip_suffix
StripPrefix(s, pre) ==
    IF Len(s) >= Len(pre) /\ SubSeq(s, 1, Len(pre)) = pre
    THEN Some(SubSeq(s, Len(pre) + 1, Len(s)))
    ELSE None

StripSuffix(s, suf) ==
    IF Len(s) >= Len(suf) /\ SubSeq(s, Len(s) - Len(suf) + 1, Len(s)) = suf
    THEN Some(SubSeq(s, 1, Len(s) - Len(suf)))
    ELSE None

\* lines 142-149
cn_kind_prefixes ==
    << [cn |-> <<"zuo", "ye">>,     en |-> "Homework"],
       [cn |-> <<"ce", "yan">>,     en |-> "Quiz"],
       [cn |-> <<"shi2", "yan">>,   en |-> "Lab"],
       [cn |-> <<"tao", "lun">>,    en |-> "Discussion"],
       [cn |-> <<"jiang", "zuo4">>, en |-> "Lecture"],
       [cn |-> <<"xiang", "mu">>,   en |-> "Project"] >>

\* an ordinal rule that knows the suffix jiang only
OrdinalRuleLectureOnly(k, t) ==
    LET rest == StripPrefix(t, <<"di">>)
        num  == IF IsSome(rest) /\ IsSome(StripSuffix(Unwrap(rest), <<"jiang">>))
                THEN chinese_num_to_int(Unwrap(StripSuffix(Unwrap(rest), <<"jiang">>)))
                ELSE None
    IN  IF IsSome(num)
        THEN Some(EnKind(k) \o <<" ">> \o FormatU32(Unwrap(num)))
        ELSE None

\* lines 109-121: Some(label) when the function returns here
OrdinalRule(k, t) ==
    LET rest == StripPrefix(t, <<"di">>)
        Try(suf) ==
            IF IsSome(rest) /\ IsSome(StripSuffix(Unwrap(rest), suf))
            THEN chinese_num_to_int(Unwrap(StripSuffix(Unwrap(rest), suf)))
            ELSE None
    IN  IF IsSome(Try(<<"jiang">>))
        THEN Some(EnKind(k) \o <<" ">> \o FormatU32(Unwrap(Try(<<"jiang">>))))
        ELSE IF IsSome(Try(<<"ci">>))
        THEN Some(EnKind(k) \o <<" ">> \o FormatU32(Unwrap(Try(<<"ci">>))))
        ELSE None

\* lines 124-131 and 132-139: Some(label) when the function returns here
ExamRule(t, cn, en) ==
    LET rest == StripPrefix(t, cn)
    IN  IF rest = None THEN None
        ELSE IF Unwrap(rest) = <<>> THEN Some(Spell(en))
        ELSE IF IsSome(chinese_num_to_int(Unwrap(rest)))
        THEN Some(Spell(en) \o <<" ">>
                    \o FormatU32(Unwrap(chinese_num_to_int(Unwrap(rest)))))
        ELSE None

\* a numeral failure that returns the bare English name, not the next rule
KindPrefixRuleBareName(t, e) ==
    IF IsSome(StripPrefix(t, e.cn)) THEN Some(Spell(e.en)) ELSE None

\* lines 152-171, one iteration of the loop: Some(label) when it returns
KindPrefixRule(t, e) ==
    LET rest == StripPrefix(t, e.cn)
    IN  IF rest = None THEN None
        ELSE IF Unwrap(rest) = <<>> THEN Some(Spell(e.en))
        ELSE LET r         == Unwrap(rest)
                 last_char == r[Len(r)]
                 suffix    == chinese_suffix_to_letter(last_char)
                 num_part  == IF IsSome(suffix) THEN SubSeq(r, 1, Len(r) - 1) ELSE r
                 n         == chinese_num_to_int(num_part)
             IN  IF IsSome(n)
                 THEN IF IsSome(suffix)
                      THEN Some(Spell(e.en) \o <<" ">> \o FormatU32(Unwrap(n))
                                  \o <<Unwrap(suffix)>>)
                      ELSE Some(Spell(e.en) \o <<" ">> \o FormatU32(Unwrap(n)))
                 ELSE None

\* lines 151-172: the loop from entry i on
RECURSIVE KindPrefixLoop(_, _)
KindPrefixLoop(t, i) ==
    IF i > Len(cn_kind_prefixes) THEN None
    ELSE IF IsSome(KindPrefixRule(t, cn_kind_prefixes[i]))
    THEN KindPrefixRule(t, cn_kind_prefixes[i])
    ELSE KindPrefixLoop(t, i + 1)

\* lines 95-176
translate_title_algorithmic(k, t) ==
    IF IsSome(OrdinalRule(k, t)) THEN Unwrap(OrdinalRule(k, t))
    ELSE IF IsSome(ExamRule(t, <<"qi", "zhong", "kao", "shi4">>, "Midterm"))
    THEN Unwrap(ExamRule(t, <<"qi", "zhong", "kao", "shi4">>, "Midterm"))
    ELSE IF IsSome(ExamRule(t, <<"qi", "mo", "kao", "shi4">>, "Final"))
    THEN Unwrap(ExamRule(t, <<"qi", "mo", "kao", "shi4">>, "Final"))
    ELSE IF IsSome(KindPrefixLoop(t, 1)) THEN Unwrap(KindPrefixLoop(t, 1))
    ELSE t

(***************************************************************************)
(* The inputs the title translator is run on: a head (nothing, a pattern   *)
(* prefix, or the beginning of one) followed by up to MaxTail chars.       *)
(***************************************************************************)
TitleHeads ==
    { <<>>, <<"di">>, <<"x">>, <<"zuo">>, <<"qi", "zhong", "kao">>,
      <<"qi", "zhong", "kao", "shi4">>, <<"qi", "mo", "kao", "shi4">> }
      \cup {cn_kind_prefixes[i].cn : i \in 1..Len(cn_kind_prefixes)}

TailChars == {"ling", "yi", "er", "shi", "bai", "jia", "jiang", "ci", "x"}

Titles == {h \o tl : h \in TitleHeads, tl \in SeqsUpTo(TailChars, MaxTail)}

Kinds == {"Lecture", "Discussion", "Lab", "Homework", "Quiz", "Midterm",
          "Final", "Project", "Other", "Seminar", ""}

\* every char a returned string can be made of
OutChars ==
    TailChars
      \cup UNION {Range(h) : h \in TitleHeads}
      \cup UNION {Range(Spell(n)) : n \in Kinds \ {"Seminar", ""}}
      \cup {DecimalDigit(d) : d \in 0..9}
      \cup {" ", "A", "B", "C"}

TitleInit ==
    /\ cache = EmptyMap
    /\ rows = EmptyRows
    /\ task = [p \in Procs |-> IdleTask]
    /\ everSent = {}
    /\ kind \in Kinds
    /\ title \in Titles
    /\ out = None
    /\ token = <<>>
    /\ parsed = None
    /\ log_items = <<>>
    /\ show_lecture_links = FALSE
    /\ translate_titles = FALSE
    /\ calendar = None
    /\ NoRegistration

Translate ==
    /\ out = None
    /\ out' = Some(translate_title_algorithmic(kind, title))
    /\ UNCHANGED <<kind, title>>
    /\ UNCHANGED <<gatewayVars, numeralVars, calendarVars, registerVars>>

TitleNext == Translate

TitleSpec == TitleInit /\ [][TitleNext]_vars

(***************************************************************************)
(* Vocabulary of the claims about titles.                                  *)
(***************************************************************************)
HasPrefix(s, pre) == Len(s) >= Len(pre) /\ SubSeq(s, 1, Len(pre)) = pre
After(s, pre) == SubSeq(s, Len(pre) + 1, Len(s))
Front(s) == SubSeq(s, 1, Len(s) - 1)

Markers == {"jia", "yi3", "bing"}
KindPrefixes == {cn_kind_prefixes[i].cn : i \in 1..Len(cn_kind_prefixes)}

\* the numeral parser gives a number for the token
Parseable(tok) == chinese_num_to_int(tok) # None

\* patterns (a) and (b): di + numeral + jiang / ci
MatchesOrdinal(t) ==
    /\ Len(t) >= 2
    /\ t[1] = "di"
    /\ t[Len(t)] \in {"jiang", "ci"}
    /\ Parseable(SubSeq(t, 2, Len(t) - 1))

\* patterns (c) and (d): the exam prefix alone or followed by a numeral
MatchesExam(t) ==
    \E pre \in {<<"qi", "zhong", "kao", "shi4">>, <<"qi", "mo", "kao", "shi4">>} :
        /\ HasPrefix(t, pre)
        /\ (After(t, pre) = <<>> \/ Parseable(After(t, pre)))

\* pattern (e): a kind-name prefix alone, or followed by a numeral, or by a
\* numeral and one section marker
MatchesKindPrefix(t) ==
    \E pre \in KindPrefixes :
        /\ HasPrefix(t, pre)
        /\ LET r == After(t, pre) IN
             \/ r = <<>>
             \/ r # <<>> /\ r[Len(r)] \in Markers /\ Parseable(Front(r))
             \/ r # <<>> /\ r[Len(r)] \notin Markers /\ Parseable(r)

\* the numerals of the supported grammar
IsDigit(c) == c \in {"ling", "yi", "er", "san", "si", "wu", "liu", "qi7", "ba", "jiu"}
IsUnit(c) == IsDigit(c) /\ c # "ling"

IsTensUnits(tok) ==
    \/ Len(tok) = 1 /\ (IsDigit(tok[1]) \/ tok[1] = "shi")
    \/ Len(tok) = 2 /\ tok[1] = "shi" /\ IsUnit(tok[2])
    \/ Len(tok) = 2 /\ IsUnit(tok[1]) /\ tok[2] = "shi"
    \/ Len(tok) = 3 /\ IsUnit(tok[1]) /\ tok[2] = "shi" /\ IsUnit(tok[3])

IsNumeral(tok) ==
    \/ IsTensUnits(tok)
    \/ /\ Len(tok) >= 2
       /\ IsUnit(tok[1])
       /\ tok[2] = "bai"
       /\ (Len(tok) = 2 \/ IsTensUnits(SubSeq(tok, 3, Len(tok))))

(***************************************************************************)
(* C9: translate_title_algorithmic is total: for every (kind, title) it    *)
(* returns a string, and whenever none of the patterns (a)-(e) matches     *)
(* with a numeral the parser accepts, the returned string is the title.    *)
(***************************************************************************)
C9_TotalAndIdentity ==
    IsSome(out) =>
        /\ Unwrap(out) \in Seq(OutChars)
        /\ ~(MatchesOrdinal(title) \/ MatchesExam(title) \/ MatchesKindPrefix(title))
              => Unwrap(out) = title

\* a kind-name prefix followed by a token the parser rejects: passed through
C9_Witness ==
    /\ IsSome(out)
    /\ title = <<"zuo", "ye", "x", "jia">>
    /\ Unwrap(out) = title

(***************************************************************************)
(* C10 (as stated): a title that starts with a kind-name prefix and whose  *)
(* non-empty remainder is neither a numeral of the supported grammar nor   *)
(* such a numeral followed by one section marker is returned unchanged.    *)
(***************************************************************************)
C10_JunkRemainderPassesThrough ==
    IsSome(out) =>
        \A pre \in KindPrefixes :
            (/\ HasPrefix(title, pre)
             /\ After(title, pre) # <<>>
             /\ ~IsNumeral(After(title, pre))
             /\ ~(Last(After(title, pre)) \in Markers
                    /\ IsNumeral(Front(After(title, pre)))))
                => Unwrap(out) = title

(***************************************************************************)
(* The numeral parser on its own: chinese_num_to_int applied to one token. *)
(* Tokens are all strings of at most MaxTok characters over the ten        *)
(* digits, U+5341 (shi), U+767E (bai) and one character that is none of    *)
(* them.                                                                   *)
(***************************************************************************)
MaxTok == 3

NumChars ==
    {"ling", "yi", "er", "san", "si", "wu", "liu", "qi7", "ba", "jiu",
     "shi", "bai", "x"}

Tokens == SeqsUpTo(NumChars, MaxTok)

NumeralInit ==
    /\ cache = EmptyMap
    /\ rows = EmptyRows
    /\ task = [p \in Procs |-> IdleTask]
    /\ everSent = {}
    /\ kind = ""
    /\ title = <<>>
    /\ out = None
    /\ token \in Tokens
    /\ parsed = None
    /\ log_items = <<>>
    /\ show_lecture_links = FALSE
    /\ translate_titles = FALSE
    /\ calendar = None
    /\ NoRegistration

ParseToken ==
    /\ parsed = None
    /\ parsed' = Some(chinese_num_to_int(token))
    /\ UNCHANGED token
    /\ UNCHANGED <<gatewayVars, titleVars, calendarVars, registerVars>>

NumeralNext == ParseToken

NumeralSpec == NumeralInit /\ [][NumeralNext]_vars

(***************************************************************************)
(* C11 (as stated): chinese_num_to_int returns a number only when the      *)
(* whole token is derivable by the supported grammar (a single digit, shi, *)
(* shi N, N shi, N shi M, or D bai followed by nothing or by one of those  *)
(* forms), returns no match otherwise, and returns 0 only for the token    *)
(* that is the zero character alone.                                       *)
(***************************************************************************)
C11_NumberOnlyForGrammar ==
    IsSome(parsed) =>
        /\ IsSome(Unwrap(parsed)) => IsNumeral(token)
        /\ Unwrap(parsed) = Some(0) => token = <<"ling">>

\* canonical Chinese numeral of n in 1..99
UnitChars == <<"yi", "er", "san", "si", "wu", "liu", "qi7", "ba", "jiu">>

CanonicalNumeral(n) ==
    IF n < 10 THEN <<UnitChars[n]>>
    ELSE IF n = 10 THEN <<"shi">>
    ELSE IF n < 20 THEN <<"shi", UnitChars[n - 10]>>
    ELSE IF n % 10 = 0 THEN <<UnitChars[n \div 10], "shi">>
    ELSE <<UnitChars[n \div 10], "shi", UnitChars[n % 10]>>

(***************************************************************************)
(* C12: for every integer N in 1..99, chinese_num_to_int applied to the    *)
(* canonical numeral of N (units, shi, shi N, N shi, N shi M) returns N.   *)
(***************************************************************************)
C12_CanonicalRoundTrip ==
    \A n \in 1..99 :
        (IsSome(parsed) /\ token = CanonicalNumeral(n))
            => Unwrap(parsed) = Some(n)

\* 47 is written si shi qi and parsed back to 47
C12_Witness ==
    /\ IsSome(parsed)
    /\ token = <<"si", "shi", "qi7">>
    /\ token = CanonicalNumeral(47)
    /\ Unwrap(parsed) = Some(47)

(***************************************************************************)
(* The value the supported grammar gives a numeral, and the labels the     *)
(* title rules are specified to build from it.                             *)
(***************************************************************************)
DigitValue(c) == CHOOSE n \in 0..9 : (<<"ling">> \o UnitChars)[n + 1] = c

TensUnitsValue(tok) ==
    IF Len(tok) = 1 THEN (IF tok[1] = "shi" THEN 10 ELSE DigitValue(tok[1]))
    ELSE IF Len(tok) = 2 /\ tok[1] = "shi" THEN 10 + DigitValue(tok[2])
    ELSE IF Len(tok) = 2 THEN 10 * DigitValue(tok[1])
    ELSE 10 * DigitValue(tok[1]) + DigitValue(tok[3])

NumeralValue(tok) ==
    IF IsTensUnits(tok) THEN TensUnitsValue(tok)
    ELSE IF Len(tok) = 2 THEN 100 * DigitValue(tok[1])
    ELSE 100 * DigitValue(tok[1]) + TensUnitsValue(SubSeq(tok, 3, Len(tok)))

MarkerLetter(c) == CASE c = "jia" -> "A" [] c = "yi3" -> "B" [] c = "bing" -> "C"

PrefixNames ==
    { [cn |-> <<"zuo", "ye">>,     en |-> "Homework"],
      [cn |-> <<"ce", "yan">>,     en |-> "Quiz"],
      [cn |-> <<"shi2", "yan">>,   en |-> "Lab"],
      [cn |-> <<"tao", "lun">>,    en |-> "Discussion"],
      [cn |-> <<"jiang", "zuo4">>, en |-> "Lecture"],
      [cn |-> <<"xiang", "mu">>,   en |-> "Project"] }

Label(name, n) == Spell(name) \o <<" ">> \o FormatU32(n)

(***************************************************************************)
(* C13: a title made of a kind-name prefix followed by a supported numeral *)
(* for N, optionally followed by one section marker, is translated to      *)
(* "<EnglishName> N" or "<EnglishName> N<A|B|C>", EnglishName being the    *)
(* name of the title's prefix whatever the kind argument; the bare prefix  *)
(* is translated to the bare English name.                                 *)
(***************************************************************************)
C13_KindPrefixLabel ==
    IsSome(out) =>
        \A e \in PrefixNames :
            HasPrefix(title, e.cn) =>
                LET r == After(title, e.cn) IN
                /\ r = <<>> => Unwrap(out) = Spell(e.en)
                /\ IsNumeral(r) => Unwrap(out) = Label(e.en, NumeralValue(r))
                /\ (r # <<>> /\ Last(r) \in Markers /\ IsNumeral(Front(r)))
                      => Unwrap(out) = Label(e.en, NumeralValue(Front(r)))
                                         \o <<MarkerLetter(Last(r))>>

\* zuo ye + er shi + jia under kind Quiz: "Homework 20A"
C13_Witness ==
    /\ IsSome(out)
    /\ kind = "Quiz"
    /\ title = <<"zuo", "ye", "er", "shi", "jia">>
    /\ Unwrap(out) = Spell("Homework") \o <<" ", "2", "0", "A">>

\* the noun the fixed table assigns to a kind
KindNoun(k) ==
    IF k \in {"Lecture", "Discussion", "Lab", "Homework", "Quiz", "Midterm",
              "Final", "Project"}
    THEN k ELSE "Other"

(***************************************************************************)
(* C14: for every kind and every title di + numeral(N) + jiang or          *)
(* di + numeral(N) + ci with a supported numeral, the result is "<E> N",   *)
(* E being the noun the fixed table assigns to the kind argument, "Other"  *)
(* for every kind outside the eight named kinds.                           *)
(***************************************************************************)
C14_OrdinalLabel ==
    (/\ IsSome(out)
     /\ Len(title) >= 3
     /\ title[1] = "di"
     /\ Last(title) \in {"jiang", "ci"}
     /\ IsNumeral(SubSeq(title, 2, Len(title) - 1)))
        => Unwrap(out) = Label(KindNoun(kind),
                               NumeralValue(SubSeq(title, 2, Len(title) - 1)))

\* di + shi er + ci under a kind outside the table: "Other 12"
C14_Witness ==
    /\ IsSome(out)
    /\ kind = "Seminar"
    /\ title = <<"di", "shi", "er", "ci">>
    /\ Unwrap(out) = Spell("Other") \o <<" ", "1", "2">>

ExamNames ==
    { [cn |-> <<"qi", "zhong", "kao", "shi4">>, en |-> "Midterm"],
      [cn |-> <<"qi", "mo", "kao", "shi4">>,    en |-> "Final"] }

(***************************************************************************)
(* C15 (as stated): for every kind, the midterm-exam prefix alone gives    *)
(* "Midterm" and followed by numeral(N) gives "Midterm N"; likewise the    *)
(* final-exam prefix gives "Final" / "Final N"; a title with one of these  *)
(* prefixes followed by a non-numeral remainder is returned unchanged.     *)
(***************************************************************************)
C15_ExamLabel ==
    IsSome(out) =>
        \A e \in ExamNames :
            HasPrefix(title, e.cn) =>
                LET r == After(title, e.cn) IN
                /\ r = <<>> => Unwrap(out) = Spell(e.en)
                /\ IsNumeral(r) => Unwrap(out) = Label(e.en, NumeralValue(r))
                /\ (r # <<>> /\ ~IsNumeral(r)) => Unwrap(out) = title

(***************************************************************************)
(* The calendar builder (routes.rs).                                       *)
(*                                                                         *)
(* A date string is a record: txt is "" for the empty string, "bad" for a  *)
(* string that does not parse as %Y-%m-%d, and "ymd" for the date that     *)
(* lies `day` days after a fixed Monday, which is all the builder uses of  *)
(* a NaiveDate (order, difference in days, weekday).  A url is a sequence  *)
(* of parts, so that "contains" is a real test.                            *)
(***************************************************************************)
MaxItems == 2

DateStr(d) == [txt |-> "ymd", day |-> d]
EmptyDateStr == [txt |-> "", day |-> 0]
BadDateStr == [txt |-> "bad", day |-> 0]

\* line 1371: NaiveDate::parse_from_str(date_str, "%Y-%m-%d").ok()
\* a parser that reads a date out of every non-empty string
ParseDateLenient(s) == IF s.txt = "" THEN None ELSE Some(s.day)

ParseDate(s) == IF s.txt = "ymd" THEN Some(s.day) ELSE None

\* str::contains
Contains(url, part) == \E i \in 1..Len(url) : url[i] = part

\* a link policy that shows drive links of every kind
filter_public_link_any_kind(link, k, sll) ==
    IF IsSome(link) /\ Contains(Unwrap(link), "notes.lnjng.com")
    THEN Some(Unwrap(link))
    ELSE IF IsSome(link) /\ Contains(Unwrap(link), "drive.google.com") /\ sll
    THEN Some(Unwrap(link))
    ELSE None

\* lines 1317-1323
filter_public_link(link, k, sll) ==
    IF IsSome(link) /\ Contains(Unwrap(link), "notes.lnjng.com")
    THEN Some(Unwrap(link))
    ELSE IF /\ IsSome(link)
            /\ Contains(Unwrap(link), "drive.google.com")
            /\ k = "Lecture"
            /\ sll
    THEN Some(Unwrap(link))
    ELSE None

\* line 1325
ALL_KINDS ==
    <<"Lecture", "Discussion", "Lab", "Homework", "Quiz", "Midterm", "Other">>

\* lines 1333-1355: the closure to_public with what it captures
to_public(item, sll, tr, tt) ==
    [id          |-> item.id,
     kind        |-> item.kind,
     title       |-> IF tt THEN translate_title_algorithmic(item.kind, item.title)
                     ELSE item.title,
     description |-> IF item.description = None THEN None
                     ELSE IF Unwrap(item.description) = "" THEN None
                     ELSE IF tt
                     THEN Some(IF Unwrap(item.description) \in DOMAIN tr
                               THEN tr[Unwrap(item.description)]
                               ELSE Unwrap(item.description))
                     ELSE Some(Unwrap(item.description)),
     date        |-> item.date,
     link        |-> filter_public_link(item.link, item.kind, sll)]

\* lines 1357-1359: the partition predicate
IsDated(i) == IsSome(i.date) /\ Unwrap(i.date).txt # ""

dated(items) == SelectSeq(items, IsDated)
\* a partition that sends the empty date string to the dated side
undated_absent_only(items) == SelectSeq(items, LAMBDA i : i.date = None)

undated(items) == SelectSeq(items, LAMBDA i : ~IsDated(i))

\* lines 1368-1375
dated_with_dates(items) ==
    LET ok == SelectSeq(dated(items),
                        LAMBDA i : IsSome(ParseDate(Unwrap(i.date))))
    IN  [j \in 1..Len(ok) |->
            [item |-> ok[j], date |-> Unwrap(ParseDate(Unwrap(ok[j].date)))]]

\* line 1381: slice::sort_by_key is a stable sort; x goes after every
\* element whose key is not greater
InsertByKey(sorted, x) ==
    LET k == Cardinality({i \in 1..Len(sorted) : sorted[i].date <= x.date})
    IN  SubSeq(sorted, 1, k) \o <<x>> \o SubSeq(sorted, k + 1, Len(sorted))

\* the parsed items left in the order of the input
no_sort(s) == s

RECURSIVE sort_by_key(_)
sort_by_key(s) ==
    IF s = <<>> THEN <<>>
    ELSE InsertByKey(sort_by_key(SubSeq(s, 1, Len(s) - 1)), s[Len(s)])

\* line 1384: Weekday::num_days_from_monday; day 0 is a Monday
num_days_from_monday(d) == d % 7

\* weeks counted from the earliest date itself, not from its Monday
epoch_unshifted(sorted) == sorted[1].date

\* lines 1383-1384
epoch_monday(sorted) == sorted[1].date - num_days_from_monday(sorted[1].date)

\* lines 1391-1392
week_index(date, em) == (date - em) \div 7

\* the keys of weeks_map and of kind_counts after the loop of lines 1390-1404
WeekKeys(sorted, em) == {week_index(sorted[j].date, em) : j \in 1..Len(sorted)}
KindCountKeys(sorted) == {sorted[j].item.kind : j \in 1..Len(sorted)}

\* weeks_map[w] after the loop: kind -> the public items pushed, in order
WeekItems(sorted, em, w, sll, tr, tt) ==
    LET inWeek == SelectSeq(sorted, LAMBDA e : week_index(e.date, em) = w)
        kinds  == {inWeek[j].item.kind : j \in 1..Len(inWeek)}
    IN  [k \in kinds |->
            LET ofKind == SelectSeq(inWeek, LAMBDA e : e.item.kind = k)
            IN  [j \in 1..Len(ofKind) |-> to_public(ofKind[j].item, sll, tr, tt)]]

\* every column shown, whether or not an item of the kind was counted
active_kinds_unfiltered(counts) == ALL_KINDS

\* Final and Project given a column after the seven
active_kinds_with_exams(counts) ==
    SelectSeq(ALL_KINDS \o <<"Final", "Project">>, LAMBDA k : k \in counts)

\* lines 1407-1411
active_kinds(counts) == SelectSeq(ALL_KINDS, LAMBDA k : k \in counts)

\* line 1414: the last key of the BTreeMap
max_week(keys) == CHOOSE m \in keys : \A w \in keys : w <= m

\* a loop over the weeks that hold an item only
WeekRangeOccupied(keys) ==
    SelectSeq([i \in 1..(max_week(keys) + 1) |-> i - 1], LAMBDA w : w \in keys)

\* line 1417: 0..=max_week
WeekRange(keys) == [i \in 1..(max_week(keys) + 1) |-> i - 1]

\* columns for the kinds the week holds only
ItemsByKindPresent(active, week_items) ==
    LET present == SelectSeq(active, LAMBDA k : k \in DOMAIN week_items)
    IN  [j \in 1..Len(present) |-> <<present[j], week_items[present[j]]>>]

\* lines 1422-1428
ItemsByKind(active, week_items) ==
    [j \in 1..Len(active) |->
        <<active[j],
          IF active[j] \in DOMAIN week_items THEN week_items[active[j]] ELSE <<>> >>]

\* NaiveDate::format("%b %d"): month and day of the date, the year dropped
FormatMonthDay(d) == <<"%b %d", d>>

\* lines 1327-1439
build_calendar(items, sll, tr, tt) ==
    LET unscheduled == [j \in 1..Len(undated(items)) |->
                           to_public(undated(items)[j], sll, tr, tt)]
        dwd         == dated_with_dates(items)
        nothing     == [weeks |-> <<>>, unscheduled |-> unscheduled,
                        active_kinds |-> <<>>]
    IN  IF dated(items) = <<>> THEN nothing
        ELSE IF dwd = <<>> THEN nothing
        ELSE LET sorted == sort_by_key(dwd)
                 em     == epoch_monday(sorted)
                 active == active_kinds(KindCountKeys(sorted))
                 range  == WeekRange(WeekKeys(sorted, em))
             IN  [weeks |->
                    [i \in 1..Len(range) |->
                        LET week_num == range[i]
                            monday   == em + week_num * 7
                            sunday   == monday + 6
                        IN  [week_number   |-> week_num + 1,
                             start_date    |-> FormatMonthDay(monday),
                             end_date      |-> FormatMonthDay(sunday),
                             items_by_kind |->
                                 ItemsByKind(active,
                                     WeekItems(sorted, em, week_num, sll, tr, tt))]],
                  unscheduled  |-> unscheduled,
                  active_kinds |-> active]

(***************************************************************************)
(* The inputs the builder is run on: at most MaxItems items, ids given by  *)
(* the position.  Items vary in kind and date (two kinds with a column, a  *)
(* kind without; no date, an empty one, an unparseable one, four days: two *)
(* in week 0, a Monday in week 1, one in week 3), in link, in description, *)
(* and three more kinds occur on one day (a third column kind, the other   *)
(* named kind without a column, a kind no table knows).                    *)
(***************************************************************************)
ItemDays == {2, 4, 7, 22}

ItemDates ==
    {None, Some(EmptyDateStr), Some(BadDateStr)} \cup {Some(DateStr(d)) : d \in ItemDays}

ItemLinks ==
    { None,
      Some(<<"https://", "notes.lnjng.com", "/a">>),
      Some(<<"https://", "drive.google.com", "/b">>),
      Some(<<"https://", "drive.google.com", "/?to=", "notes.lnjng.com">>),
      Some(<<"https://", "example.org", "/c">>) }

Translations == [d \in {"d"} |-> "D"]

ItemPool ==
    [id : {0}, kind : {"Lecture", "Homework", "Final"},
     title : {<<"di", "er", "jiang">>}, description : {None},
     link : {None}, date : ItemDates]
    \cup
    [id : {0}, kind : {"Lecture", "Homework"},
     title : {<<"di", "er", "jiang">>}, description : {None},
     link : ItemLinks \ {None}, date : {None, Some(DateStr(2))}]
    \cup
    [id : {0}, kind : {"Lecture"},
     title : {<<"x">>}, description : {Some(""), Some("d"), Some("e")},
     link : {None}, date : {Some(DateStr(2))}]
    \cup
    [id : {0}, kind : {"Other", "Project", "Seminar"},
     title : {<<"di", "er", "jiang">>}, description : {None},
     link : {None}, date : {Some(DateStr(7))}]

CalendarInit ==
    /\ cache = EmptyMap
    /\ rows = EmptyRows
    /\ task = [p \in Procs |-> IdleTask]
    /\ everSent = {}
    /\ kind = ""
    /\ title = <<>>
    /\ out = None
    /\ token = <<>>
    /\ parsed = None
    /\ \E l \in SeqsUpTo(ItemPool, MaxItems) :
           log_items = [i \in 1..Len(l) |-> [l[i] EXCEPT !.id = i]]
    /\ show_lecture_links \in BOOLEAN
    /\ translate_titles \in BOOLEAN
    /\ calendar = None
    /\ NoRegistration

BuildCalendar ==
    /\ calendar = None
    /\ calendar' = Some(build_calendar(log_items, show_lecture_links,
                                       Translations, translate_titles))
    /\ UNCHANGED <<log_items, show_lecture_links, translate_titles>>
    /\ UNCHANGED <<gatewayVars, titleVars, numeralVars, registerVars>>

CalendarNext == BuildCalendar

CalendarSpec == CalendarInit /\ [][CalendarNext]_vars

(***************************************************************************)
(* Vocabulary of the calendar claims, computed from log_items alone.       *)
(***************************************************************************)
Weeks == Unwrap(calendar).weeks
Unscheduled == Unwrap(calendar).unscheduled
ActiveKinds == Unwrap(calendar).active_kinds

\* the days of the items that carry a date that parses
ParsedDays ==
    {Unwrap(log_items[i].date).day :
        i \in {j \in 1..Len(log_items) :
                  IsSome(log_items[j].date) /\ Unwrap(log_items[j].date).txt = "ymd"}}

Earliest == CHOOSE d \in ParsedDays : \A e \in ParsedDays : d <= e
Latest == CHOOSE d \in ParsedDays : \A e \in ParsedDays : e <= d

\* zero-based index of the week of day d, weeks starting on the Monday of
\* the week of the earliest day
WeekOf(d) == (d - (Earliest - (Earliest % 7))) \div 7

\* every public item the builder emitted
Emitted ==
    Range(Unscheduled)
      \cup UNION {Range(c[2]) :
                    c \in UNION {Range(Weeks[w].items_by_kind) : w \in 1..Len(Weeks)}}

(***************************************************************************)
(* C16: the week_number values of the weeks build_calendar returns are     *)
(* exactly 1..n, contiguous and in order, n - 1 being the zero-based week  *)
(* index of the latest dated item; a week in which no item falls is still  *)
(* emitted, with an empty list for every active kind.                      *)
(***************************************************************************)
C16_WeeksContiguous ==
    IsSome(calendar) =>
        /\ \A w \in 1..Len(Weeks) : Weeks[w].week_number = w
        /\ Len(Weeks) = IF ParsedDays = {} THEN 0 ELSE WeekOf(Latest) + 1
        /\ \A w \in 1..Len(Weeks) :
              (\A d \in ParsedDays : WeekOf(d) # w - 1)
                 => /\ Len(Weeks[w].items_by_kind) = Len(ActiveKinds)
                    /\ \A j \in 1..Len(Weeks[w].items_by_kind) :
                          Weeks[w].items_by_kind[j][2] = <<>>

\* items in weeks 0 and 3 only: four weeks, the two in between empty
C16_Witness ==
    /\ IsSome(calendar)
    /\ ParsedDays = {2, 22}
    /\ Len(Weeks) = 4
    /\ ActiveKinds # <<>>
    /\ \A j \in 1..Len(ActiveKinds) : Weeks[2].items_by_kind[j] = <<ActiveKinds[j], <<>> >>

(***************************************************************************)
(* C17: in every CalendarWeek the kinds of items_by_kind are exactly the   *)
(* returned activeKinds, each once and in the same order.                  *)
(***************************************************************************)
C17_ColumnsAreActiveKinds ==
    IsSome(calendar) =>
        /\ \A i, j \in 1..Len(ActiveKinds) : ActiveKinds[i] = ActiveKinds[j] => i = j
        /\ \A w \in 1..Len(Weeks) :
              /\ Len(Weeks[w].items_by_kind) = Len(ActiveKinds)
              /\ \A j \in 1..Len(ActiveKinds) :
                    Weeks[w].items_by_kind[j][1] = ActiveKinds[j]

\* a Homework item listed before a Lecture item a week later: two columns
\* in canonical order, the second week holding no Homework
C17_Witness ==
    /\ IsSome(calendar)
    /\ Len(log_items) = 2
    /\ log_items[1].kind = "Homework"
    /\ ActiveKinds = <<"Lecture", "Homework">>
    /\ Len(Weeks) = 2
    /\ Weeks[2].items_by_kind[2] = <<"Homework", <<>> >>
    /\ Weeks[2].items_by_kind[1][2] # <<>>

(***************************************************************************)
(* C18: the link of every public item build_calendar emits (in a week or   *)
(* in unscheduled) is absent or equal to the stored link verbatim, and it  *)
(* is present exactly when the stored link contains notes.lnjng.com (any   *)
(* kind, any flag), or contains drive.google.com while the kind is exactly *)
(* "Lecture" and showLectureLinks is true.                                 *)
(***************************************************************************)
C18_LinkPolicy ==
    IsSome(calendar) =>
        \A pi \in Emitted :
            /\ pi.id \in 1..Len(log_items)
            /\ LET stored == log_items[pi.id].link IN
                 /\ pi.link = None \/ pi.link = stored
                 /\ IsSome(pi.link) <=>
                       /\ IsSome(stored)
                       /\ \/ Contains(Unwrap(stored), "notes.lnjng.com")
                          \/ /\ Contains(Unwrap(stored), "drive.google.com")
                             /\ pi.kind = "Lecture"
                             /\ show_lecture_links

\* a drive link shown on a Lecture and withheld on a Homework, flag on
C18_Witness ==
    /\ IsSome(calendar)
    /\ show_lecture_links
    /\ \E a, b \in Emitted :
          /\ a.kind = "Lecture" /\ b.kind = "Homework"
          /\ log_items[a.id].link = Some(<<"https://", "drive.google.com", "/b">>)
          /\ log_items[b.id].link = log_items[a.id].link
          /\ a.link = log_items[a.id].link
          /\ b.link = None

(***************************************************************************)
(* C19: in one translate_batch invocation with at least one miss, the      *)
(* number of remote call attempts is between 1 and 3; every attempt        *)
(* carries the same list of misses; a further attempt is made only after   *)
(* the previous attempt returned an error, and no attempt follows a        *)
(* response that was received, a response of the wrong count included.     *)
(***************************************************************************)
C19_RetryDiscipline ==
    \A p \in SeqProcs :
        LET t == task[p] IN
        InBatch(t) =>
            /\ Len(t.calls) <= 3
            /\ \A i \in 1..Len(t.calls) :
                  /\ t.calls[i].sent = t.misses
                  /\ t.misses # <<>>
                  /\ i < Len(t.calls) => ~t.calls[i].ok
            /\ (t.pc \in {"store", "done"} /\ t.misses # <<>>)
                  => /\ Len(t.calls) >= 1
                     /\ t.calls[Len(t.calls)].ok \/ Len(t.calls) = 3

\* two failed attempts, then a response of the wrong count: three attempts
\* with the same two misses, and the invocation has returned
C19_Witness ==
    \E p \in SeqProcs :
        LET t == task[p] IN
        /\ InBatch(t)
        /\ t.pc = "done"
        /\ Len(t.misses) = 2
        /\ Len(t.calls) = 3
        /\ ~t.calls[1].ok /\ ~t.calls[2].ok /\ t.calls[3].ok
        /\ Len(Unwrap(t.api_result)) # Len(t.misses)

\* the cache check of the running invocation read text x and the read failed
ReadFailed(t, x) ==
    \E i \in 1..Len(t.readRes) :
        i <= Len(t.unique_texts) /\ t.unique_texts[i] = x /\ t.readRes[i].io = "err"

(***************************************************************************)
(* C20 (as stated): the cache is append-only: once it holds an entry for   *)
(* a source text, no step of lookup_cached_translations or translate_batch *)
(* removes that entry or changes its translated text.                      *)
(***************************************************************************)
C20_AppendOnly ==
    [][\A x \in Texts : IsSome(cache[x]) => cache'[x] = cache[x]]_vars

(***************************************************************************)
(* C20 (amended): no step removes an entry; the translated text of an      *)
(* entry changes only in the store step of a translate_batch invocation    *)
(* whose cache read of that text failed, and then it becomes the           *)
(* translation the remote call returned for it.                            *)
(***************************************************************************)
C20_KeptOrReplacedAfterFailedRead ==
    [][\A x \in Texts :
          IsSome(cache[x]) =>
              /\ IsSome(cache'[x])
              /\ cache'[x] # cache[x] =>
                    \E p \in SeqProcs :
                        LET t == task[p] IN
                        /\ t.pc = "store"
                        /\ t.idx <= Len(t.misses)
                        /\ t.misses[t.idx] = x
                        /\ ReadFailed(t, x)
                        /\ cache'[x] = Some(Unwrap(t.api_result)[t.idx])]_vars

\* an entry that existed when the invocation began now holds another text,
\* while a second entry the invocation read is as it was
C20_Witness ==
    \E p \in SeqProcs :
        LET t == task[p] IN
        /\ InBatch(t)
        /\ IsSome(t.cache0["a"]) /\ IsSome(cache["a"])
        /\ cache["a"] # t.cache0["a"]
        /\ ReadFailed(t, "a")
        /\ IsSome(t.cache0["b"]) /\ cache["b"] = t.cache0["b"]
        /\ "b" \in Range(t.unique_texts)

(***************************************************************************)
(* Two translate_batch invocations running at once on one table: every     *)
(* await of the function (a cache read, a remote attempt, a cache write)   *)
(* is a point where the other invocation may run.  Each task makes one     *)
(* invocation, on one of two overlapping lists.                            *)
(***************************************************************************)
ConcInputs == {<<"a">>, <<"b", "a">>}

ConcInvoke(p) == \E ts \in ConcInputs : InvokeWith(p, ts)

ConcNext ==
    \E p \in Procs :
        \/ ConcInvoke(p)
        \/ CheckCache(p)
        \/ CallRemoteErr(p)
        \/ CallRemoteOk(p)
        \/ StoreTranslation(p)

ConcSpec == Init /\ [][ConcNext]_vars

\* the invocation read text x, the read succeeded and found no entry
ReadNoEntry(t, x) ==
    \E i \in 1..Len(t.readRes) :
        /\ i <= Len(t.unique_texts) /\ t.unique_texts[i] = x
        /\ t.readRes[i].io = "ok" /\ t.readRes[i].entry = None

(***************************************************************************)
(* C21: under every interleaving of two concurrent translate_batch         *)
(* invocations over overlapping texts (both may send the same uncached     *)
(* text to the remote service), in every reachable state the table holds   *)
(* at most one row per source text of the (zh, en) pair, which is the      *)
(* entry the cache reads see, and each invocation that has returned has a  *)
(* result of its input's length.                                           *)
(***************************************************************************)
C21_RacesKeepOneEntry ==
    /\ \A r \in DOMAIN rows : rows[r] = 1
    /\ \A r1, r2 \in DOMAIN rows : r1.source = r2.source => r1 = r2
    /\ \A x \in Texts : \A v \in TrVals :
          cache[x] = Some(v) <=> [source |-> x, translated |-> v] \in DOMAIN rows
    /\ \A p \in Procs :
          (InBatch(task[p]) /\ task[p].pc = "done")
              => Len(task[p].result) = Len(task[p].texts)

\* both invocations found no entry for "a", both sent it, the answers
\* differed, both wrote: one row for "a" remains and both have returned
C21_Witness ==
    /\ \A p \in Procs :
          /\ InBatch(task[p]) /\ task[p].pc = "done"
          /\ ReadNoEntry(task[p], "a")
          /\ task[p].calls # <<>>
          /\ "a" \in Range(task[p].calls[1].sent)
          /\ Stored(task[p])
          /\ task[p].writeRes = [i \in 1..Len(task[p].misses) |-> "ok"]
          /\ Len(task[p].result) = Len(task[p].texts)
    /\ task[1].texts = <<"a">>
    /\ task[2].texts = <<"b", "a">>
    /\ task[1].result[1] # task[2].result[2]
    /\ \E r \in DOMAIN rows : r.source = "a"

\* read i of the invocation delivered nothing: it failed, or found no entry
NothingRead(t, i) == t.readRes[i].io = "err" \/ t.readRes[i].entry = None

(***************************************************************************)
(* C22: a cache read that fails with an I/O error is handled exactly like  *)
(* a read that finds no entry: in translate_batch the text is among the    *)
(* misses and goes to the remote call, ending with the remote translation  *)
(* or with itself; in lookup_cached_translations the entry is absent; and  *)
(* neither operation ends with an error.                                   *)
(***************************************************************************)
C22_FailedReadIsMiss ==
    \A p \in SeqProcs :
        LET t == task[p] IN
        /\ t.pc \in {"idle", "check", "call", "store", "lookup", "done"}
        /\ InBatch(t) =>
              /\ Len(t.readRes) <= Len(t.unique_texts)
              /\ \A i \in 1..Len(t.readRes) :
                    NothingRead(t, i) <=> t.unique_texts[i] \in Range(t.misses)
              /\ t.pc = "done" =>
                    \A j \in 1..Len(t.misses) :
                        /\ t.calls # <<>>
                        /\ t.calls[1].sent[j] = t.misses[j]
                        /\ t.cache_map[t.misses[j]] =
                              IF Stored(t) THEN Some(Unwrap(t.api_result)[j])
                              ELSE Some(t.misses[j])
        /\ InLookup(t) =>
              /\ Len(t.readRes) = Len(t.result)
              /\ \A i \in 1..Len(t.readRes) :
                    NothingRead(t, i) <=> t.result[i] = None

\* the read of a cached text failed: the text was sent, every attempt
\* failed, and the invocation returned the text itself
C22_Witness ==
    \E p \in SeqProcs :
        LET t == task[p] IN
        /\ InBatch(t) /\ t.pc = "done"
        /\ t.texts = <<"a">>
        /\ t.readRes[1].io = "err" /\ IsSome(t.readRes[1].entry)
        /\ t.misses = <<"a">>
        /\ AllFailed(t)
        /\ t.result = <<"a">>

(***************************************************************************)
(* More vocabulary of the calendar claims.                                 *)
(***************************************************************************)
SevenKinds == {"Lecture", "Discussion", "Lab", "Homework", "Quiz", "Midterm", "Other"}

HasParsedDate(i) ==
    IsSome(log_items[i].date) /\ Unwrap(log_items[i].date).txt = "ymd"

DayOf(i) == Unwrap(log_items[i].date).day

\* the places <<week, column, position>> where the item of this id is shown
Places(id) ==
    {pl \in UNION {{<<w, j, k>> : k \in 1..Len(Weeks[w].items_by_kind[j][2])} :
                     w \in 1..Len(Weeks), j \in 1..Len(ActiveKinds)} :
        Weeks[pl[1]].items_by_kind[pl[2]][2][pl[3]].id = id}

\* the Monday that begins the week of the earliest parsed date
FirstMonday == Earliest - (Earliest % 7)

(***************************************************************************)
(* C23: every item with a parseable date and a kind of the column list     *)
(* appears in exactly one week, the week of zero-based index               *)
(* floor((date - epochMonday) / 7), epochMonday being the Monday on or     *)
(* before the earliest parsed date; the date lies inside that week's       *)
(* Monday-Sunday span, and the earliest dated item falls in week 1.        *)
(***************************************************************************)
C23_ItemInItsWeek ==
    IsSome(calendar) =>
        \A i \in 1..Len(log_items) :
            (HasParsedDate(i) /\ log_items[i].kind \in SevenKinds) =>
                /\ Cardinality(Places(i)) = 1
                /\ \A pl \in Places(i) :
                      LET week   == Weeks[pl[1]]
                          monday == FirstMonday + 7 * (pl[1] - 1)
                      IN  /\ pl[1] = ((DayOf(i) - FirstMonday) \div 7) + 1
                          /\ week.week_number = pl[1]
                          /\ week.items_by_kind[pl[2]][1] = log_items[i].kind
                          /\ monday % 7 = 0
                          /\ week.start_date = FormatMonthDay(monday)
                          /\ week.end_date = FormatMonthDay(monday + 6)
                          /\ monday <= DayOf(i) /\ DayOf(i) <= monday + 6
                          /\ DayOf(i) = Earliest => pl[1] = 1

\* a Wednesday and the Monday after it: weeks 1 and 2, not the same week
C23_Witness ==
    /\ IsSome(calendar)
    /\ Len(log_items) = 2
    /\ log_items[1].kind = "Lecture" /\ log_items[2].kind = "Lecture"
    /\ HasParsedDate(1) /\ HasParsedDate(2)
    /\ DayOf(1) = 7 /\ DayOf(2) = 2
    /\ Places(1) = {<<2, 1, 1>>}
    /\ Places(2) = {<<1, 1, 1>>}

CanonicalKinds ==
    <<"Lecture", "Discussion", "Lab", "Homework", "Quiz", "Midterm", "Other">>

\* the kinds that occur on an item with a date that parses
ParsedKinds == {log_items[i].kind : i \in {j \in 1..Len(log_items) : HasParsedDate(j)}}

(***************************************************************************)
(* C24: activeKinds is the fixed list [Lecture, Discussion, Lab, Homework, *)
(* Quiz, Midterm, Other] restricted, in that order, to exactly the kinds   *)
(* that occur on at least one item with a parseable date; items without a  *)
(* date do not make their kind active, and when no item has a parseable    *)
(* date both weeks and activeKinds are empty.                              *)
(***************************************************************************)
C24_ActiveKindsCanonical ==
    IsSome(calendar) =>
        /\ ActiveKinds = SelectSeq(CanonicalKinds, LAMBDA k : k \in ParsedKinds)
        /\ ParsedDays = {} => (Weeks = <<>> /\ ActiveKinds = <<>>)

\* an Other item listed before a Lecture item, both dated, and in another
\* run an undated Homework item: the order is canonical, Homework inactive
C24_Witness ==
    /\ IsSome(calendar)
    /\ Len(log_items) = 2
    /\ log_items[1].kind = "Other" /\ HasParsedDate(1)
    /\ \/ /\ log_items[2].kind = "Lecture" /\ HasParsedDate(2)
          /\ ActiveKinds = <<"Lecture", "Other">>
       \/ /\ log_items[2].kind = "Homework" /\ log_items[2].date = None
          /\ ActiveKinds = <<"Other">>

\* the columns of all emitted weeks, and the ids shown in them
Columns == UNION {Range(Weeks[w].items_by_kind) : w \in 1..Len(Weeks)}
ShownIds == {pub.id : pub \in UNION {Range(c[2]) : c \in Columns}}
UnscheduledIds == {Unscheduled[j].id : j \in 1..Len(Unscheduled)}

HasBadDate(i) ==
    /\ IsSome(log_items[i].date)
    /\ Unwrap(log_items[i].date).txt \notin {"", "ymd"}

\* the input with the items of unparseable date taken out, ids kept
WithoutBadDates ==
    SelectSeq(log_items,
              LAMBDA it : ~(IsSome(it.date) /\ Unwrap(it.date).txt \notin {"", "ymd"}))

(***************************************************************************)
(* C26: an item whose date is a non-empty string that does not parse is    *)
(* shown in no week and not in unscheduled, and it has no influence on the *)
(* epoch, the number of weeks or activeKinds: the calendar is the one      *)
(* built from the input without such items.                                *)
(***************************************************************************)
C26_BadDateDropped ==
    IsSome(calendar) =>
        /\ \A i \in 1..Len(log_items) :
               HasBadDate(i) => log_items[i].id \notin ShownIds \cup UnscheduledIds
        /\ Unwrap(calendar) = build_calendar(WithoutBadDates, show_lecture_links,
                                             Translations, translate_titles)
        /\ (\E i \in 1..Len(log_items) : HasBadDate(i)) =>
               /\ ParsedDays = {} => Weeks = <<>>
               /\ ParsedDays # {} =>
                      /\ Len(Weeks) = WeekOf(Latest) + 1
                      /\ Weeks[1].start_date = FormatMonthDay(FirstMonday)
               /\ Range(ActiveKinds) = ParsedKinds \cap SevenKinds

\* a Lecture of unparseable date next to a Homework on day 22: one week is
\* emitted, beginning on the Monday before day 22, and Lecture stays inactive
C26_Witness ==
    /\ IsSome(calendar)
    /\ Len(log_items) = 2
    /\ log_items[1].kind = "Lecture" /\ HasBadDate(1)
    /\ log_items[2].kind = "Homework" /\ HasParsedDate(2) /\ DayOf(2) = 22
    /\ Len(Weeks) = 1
    /\ ActiveKinds = <<"Homework">>
    /\ ShownIds = {2}
    /\ Unscheduled = <<>>

\* the items whose date is absent or the empty string, in input order
DatelessItems ==
    SelectSeq(log_items, LAMBDA it : it.date = None \/ Unwrap(it.date).txt = "")

(***************************************************************************)
(* C27: unscheduled is the public projection of exactly the items whose    *)
(* date is absent or the empty string, each once and in the relative order *)
(* of the input, whatever their kinds and whether or not dated items       *)
(* exist.                                                                  *)
(***************************************************************************)
C27_UnscheduledIsDateless ==
    IsSome(calendar) =>
        /\ Len(Unscheduled) = Len(DatelessItems)
        /\ \A j \in 1..Len(Unscheduled) :
               /\ Unscheduled[j].id = DatelessItems[j].id
               /\ Unscheduled[j] = to_public(DatelessItems[j], show_lecture_links,
                                              Translations, translate_titles)

\* a Final item with an empty date string before a Lecture without a date;
\* or a dated Lecture before a Final item with an empty date string
C27_Witness ==
    /\ IsSome(calendar)
    /\ Len(log_items) = 2
    /\ log_items[2].kind = "Final" \/ log_items[1].kind = "Final"
    /\ \/ /\ log_items[1].date = Some(EmptyDateStr)
          /\ log_items[2].date = None
          /\ Unscheduled[1].id = 1 /\ Unscheduled[2].id = 2
          /\ Len(Unscheduled) = 2
       \/ /\ HasParsedDate(1)
          /\ log_items[2].date = Some(EmptyDateStr)
          /\ Len(Unscheduled) = 1
          /\ Unscheduled[1].id = 2
          /\ Weeks # <<>>

\* the day of a public item shown in a week
PubDay(pub) == Unwrap(pub.date).day

(***************************************************************************)
(* C28: for every order of the input, the items of each (week, kind) list  *)
(* are in ascending date order, and items of equal date keep their input   *)
(* order (ids are input positions); the builder does not rely on the       *)
(* caller having sorted the items.                                         *)
(***************************************************************************)
C28_ColumnsSortedStable ==
    IsSome(calendar) =>
        \A c \in Columns :
            \A a, b \in 1..Len(c[2]) :
                a < b =>
                    \/ PubDay(c[2][a]) < PubDay(c[2][b])
                    \/ /\ PubDay(c[2][a]) = PubDay(c[2][b])
                       /\ c[2][a].id < c[2][b].id

\* two Lectures of one week given latest first: shown earliest first
C28_Witness ==
    /\ IsSome(calendar)
    /\ Len(log_items) = 2
    /\ log_items[1].kind = "Lecture" /\ HasParsedDate(1) /\ DayOf(1) = 4
    /\ log_items[2].kind = "Lecture" /\ HasParsedDate(2) /\ DayOf(2) = 2
    /\ Len(Weeks) = 1
    /\ Len(Weeks[1].items_by_kind) = 1
    /\ Len(Weeks[1].items_by_kind[1][2]) = 2
    /\ Weeks[1].items_by_kind[1][2][1].id = 2
    /\ Weeks[1].items_by_kind[1][2][2].id = 1

\* the ids shown in the columns of week w
ShownInWeek(w) ==
    {pub.id : pub \in UNION {Range(c[2]) : c \in Range(Weeks[w].items_by_kind)}}

(***************************************************************************)
(* C29: whenever build_calendar returns a non-empty weeks list,            *)
(* activeKinds is non-empty and both the first and the last emitted week   *)
(* show at least one item in a column: the span of the emitted weeks is    *)
(* determined by the shown items alone.                                    *)
(***************************************************************************)
C29_SpanFromShownItems ==
    (IsSome(calendar) /\ Weeks # <<>>) =>
        /\ ActiveKinds # <<>>
        /\ ShownInWeek(1) # {}
        /\ ShownInWeek(Len(Weeks)) # {}

(***************************************************************************)
(* Registration, login and logout (routes.rs, "Auth Routes").  Each client *)
(* runs at most one post_register at a time; the handler has three awaits  *)
(* on the database (the check for any user, the check for the username,    *)
(* the INSERT), each a statement of its own on a pooled connection, so the *)
(* requests of two clients interleave between them.  post_login has one    *)
(* await and logout none.  Every database call may fail (io = "err").  The *)
(* schema of users is not part of the source: an INSERT of a username      *)
(* already present may succeed or fail.                                    *)
(***************************************************************************)
IoOutcomes == {"ok", "err"}

\* bcrypt::hash and bcrypt::verify: a hash verifies the password it was
\* made from and no other
hash(password) == <<"bcrypt", password>>
verify(password, password_hash) == password_hash = hash(password)

\* SELECT EXISTS(SELECT 1 FROM users)
HasUsersQuery == users # <<>>

\* SELECT EXISTS(SELECT 1 FROM users WHERE username = ?)
UsernameExistsQuery(username) ==
    \E j \in 1..Len(users) : users[j].username = username

\* lines 322-325: .fetch_one(..).await.unwrap_or(true)
has_users(io) == IF io = "ok" THEN HasUsersQuery ELSE TRUE

\* lines 335-339: .fetch_one(..).await.unwrap_or(false)
exists(username, io) == IF io = "ok" THEN UsernameExistsQuery(username) ELSE FALSE

\* line 320: the request arrives with its form
StartRegister(c) ==
    /\ reg[c].pc = "idle"
    /\ \E u \in Usernames, pw \in Passwords :
           reg' = [reg EXCEPT ![c] = [pc |-> "has_users", username |-> u,
                                      password |-> pw, response |-> ""]]
    /\ UNCHANGED <<users, cookies>>
    /\ UNCHANGED <<gatewayVars, titleVars, numeralVars, calendarVars>>

\* lines 322-332
CheckHasUsers(c) ==
    /\ reg[c].pc = "has_users"
    /\ \E io \in IoOutcomes :
           reg' = [reg EXCEPT ![c] =
                      IF has_users(io)
                      THEN [@ EXCEPT !.pc = "idle",
                                     !.response = "Registration is closed."]
                      ELSE [@ EXCEPT !.pc = "exists"]]
    /\ UNCHANGED <<users, cookies>>
    /\ UNCHANGED <<gatewayVars, titleVars, numeralVars, calendarVars>>

\* lines 334-346
CheckUsername(c) ==
    /\ reg[c].pc = "exists"
    /\ \E io \in IoOutcomes :
           reg' = [reg EXCEPT ![c] =
                      IF exists(reg[c].username, io)
                      THEN [@ EXCEPT !.pc = "idle",
                                     !.response = "Username already taken"]
                      ELSE [@ EXCEPT !.pc = "insert"]]
    /\ UNCHANGED <<users, cookies>>
    /\ UNCHANGED <<gatewayVars, titleVars, numeralVars, calendarVars>>

\* lines 348-368: the INSERT and the answer; on Ok the cookie carries
\* last_insert_rowid
InsertUser(c) ==
    /\ reg[c].pc = "insert"
    /\ \E io \in IoOutcomes :
           IF io = "ok"
           THEN /\ users' = Append(users,
                                [id            |-> Len(users) + 1,
                                 username      |-> reg[c].username,
                                 password_hash |-> hash(reg[c].password)])
                /\ cookies' = [cookies EXCEPT ![c] = Some(Len(users) + 1)]
                /\ reg' = [reg EXCEPT ![c].pc = "idle",
                                      ![c].response = "Redirect /"]
           ELSE /\ reg' = [reg EXCEPT ![c].pc = "idle",
                                      ![c].response = "Registration failed"]
                /\ UNCHANGED <<users, cookies>>
    /\ UNCHANGED <<gatewayVars, titleVars, numeralVars, calendarVars>>

\* lines 279-302: post_login; fetch_optional(..).await.unwrap_or(None) gives
\* the first row of that username
PostLogin(c) ==
    /\ \E u \in Usernames, pw \in Passwords, io \in IoOutcomes :
           LET found == {j \in 1..Len(users) : users[j].username = u}
               user  == IF io = "ok" /\ found # {}
                        THEN Some(users[CHOOSE j \in found : \A k \in found : j <= k])
                        ELSE None
           IN  /\ IsSome(user)
               /\ verify(pw, Unwrap(user).password_hash)
               /\ cookies' = [cookies EXCEPT ![c] = Some(Unwrap(user).id)]
    /\ UNCHANGED <<users, reg>>
    /\ UNCHANGED <<gatewayVars, titleVars, numeralVars, calendarVars>>

\* lines 371-375
Logout(c) ==
    /\ cookies' = [cookies EXCEPT ![c] = None]
    /\ UNCHANGED <<users, reg>>
    /\ UNCHANGED <<gatewayVars, titleVars, numeralVars, calendarVars>>

RegisterNext ==
    \E c \in Clients :
        \/ StartRegister(c)
        \/ CheckHasUsers(c)
        \/ CheckUsername(c)
        \/ InsertUser(c)
        \/ PostLogin(c)
        \/ Logout(c)

RegisterSpec == Init /\ [][RegisterNext]_vars

(***************************************************************************)
(* C30: registration is a single-user gate: post_register creates a user   *)
(* only when no user exists, so under every interleaving of concurrent     *)
(* registration requests, and any sequence of register, login and logout   *)
(* requests, the users table never holds more than one user; a database    *)
(* error while checking for existing users closes registration.            *)
(***************************************************************************)
C30_AtMostOneUser == Len(users) <= 1

====
